---- MODULE Spec2Model ----
(***************************************************************************)
(* Model of Assets/Database/convert.py: the top-level pipeline that makes  *)
(* sure opennutrition_foods.tsv is present in the script's directory       *)
(* (downloading and unpacking an archive when it is not), parses it and    *)
(* writes it to an sqlite table in the user's application-data directory.  *)
(*                                                                         *)
(* The script's directory is a function from relative paths (sequences of  *)
(* names) to entries; a file's data is a pair (src, len): the first len    *)
(* lines of the document src.  One behaviour is a sequence of runs of the  *)
(* script; each run walks through the script's statements in order.        *)
(***************************************************************************)
EXTENDS Naturals, Sequences, FiniteSets, TLC

\* ---------------------------------------------------------------- bounds

\* Number of runs of the script in one behaviour.
MaxRuns == 3

\* Number of lines (header included) of the larger dataset document.
MaxLines == 3

\* ------------------------------------------------------- names and files

tsv_name == "opennutrition_foods.tsv"

zip_name == "opennutrition-dataset-2025.1.zip"

table_name == "opennutrition_foods"

\* Paths are relative to script_dir.
tsv_file == <<tsv_name>>

zip_path == <<zip_name>>

NoData == [src |-> "none", len |-> 0]

File(c) == [kind |-> "file", data |-> c]

Dir == [kind |-> "dir", data |-> NoData]

\* Documents: two versions of the dataset and an opaque text document.
FullLen(src) ==
    IF src = "A" THEN MaxLines
    ELSE IF src = "B" THEN MaxLines - 1
    ELSE 1

Whole(c) == c.len = FullLen(c.src)

Doc(src) == [src |-> src, len |-> FullLen(src)]

Range(s) == {s[i] : i \in DOMAIN s}

IsPrefix(s, t) == Len(s) <= Len(t) /\ SubSeq(t, 1, Len(s)) = s

\* str.startswith
startswith(name, prefix) ==
    Len(name) >= Len(prefix) /\ SubSeq(name, 1, Len(prefix)) = prefix

\* ------------------------------------------------------------- archives

\* What the fixed URL may serve: the member list of each archive, in
\* archive order.
Archives == {"flat", "nested", "notsv", "dup_root", "dup_sub", "extra"}

Member(p, src) == [path |-> p, data |-> Doc(src)]

Members(a) ==
    CASE a = "flat" ->
           <<Member(<<tsv_name>>, "A"), Member(<<"README.txt">>, "doc"),
             Member(<<"LICENSE">>, "doc")>>
      [] a = "nested" ->
           <<Member(<<"d1", tsv_name>>, "A"), Member(<<"d1", "README.txt">>, "doc"),
             Member(<<"d1", "LICENSE">>, "doc")>>
      [] a = "notsv" ->
           <<Member(<<"README.txt">>, "doc"), Member(<<"LICENSE">>, "doc")>>
      [] a = "dup_root" ->
           <<Member(<<tsv_name>>, "A"), Member(<<"d1", tsv_name>>, "B")>>
      [] a = "dup_sub" ->
           <<Member(<<"d1", tsv_name>>, "A"), Member(<<"d2", tsv_name>>, "B")>>
      [] a = "extra" ->
           <<Member(<<tsv_name>>, "B"), Member(<<"CHANGELOG.md">>, "doc")>>
      [] OTHER -> <<>>

\* ------------------------------------------------------------ the state

VARIABLES
    fs,         \* the script's directory tree: path -> entry
    appdir,     \* the application-data directory and its parent: kinds
    db,         \* the database file: whether it exists, and its tables
    platform,   \* "posix" or "nt": decides what rename onto a file does
    pc,         \* the statement the running script is at
    archive,    \* the archive this run downloads ("none" before it does)
    walkOrder,  \* the order in which os.walk listed the subdirectories
    df,         \* the parsed table
    steps,      \* the steps this run has completed, in order
    start,      \* the directory tree and database when this run started
    runs        \* number of runs started

vars == <<fs, appdir, db, platform, pc, archive, walkOrder, df, steps, start, runs>>

NoDf == [src |-> "none", rows |-> 0]

NoDb == [exists |-> FALSE, tables |-> {}]

\* The directory before the first run: the script itself, possibly a
\* project README, possibly a dataset file that was put there by hand.
InitialTrees ==
    LET base == (<<"convert.py">> :> File(Doc("doc")))
    IN  {base,
         base @@ (<<"README.md">> :> File(Doc("doc"))),
         base @@ (tsv_file :> File(Doc("A"))),
         base @@ (<<"README.md">> :> File(Doc("doc"))) @@ (tsv_file :> File(Doc("A")))}

InitialAppDirs ==
    {[parent |-> "absent", leaf |-> "absent"],
     [parent |-> "dir", leaf |-> "absent"],
     [parent |-> "dir", leaf |-> "dir"],
     [parent |-> "dir", leaf |-> "file"]}

Init ==
    /\ fs \in InitialTrees
    /\ appdir \in InitialAppDirs
    /\ db = NoDb
    /\ platform \in {"posix", "nt"}
    /\ pc = "idle"
    /\ archive = "none"
    /\ walkOrder = <<>>
    /\ df = NoDf
    /\ steps = <<>>
    /\ start = [fs |-> fs, db |-> db]
    /\ runs = 0

\* ------------------------------------------------------------ the steps

\* The interpreter starts the script.
StartRun ==
    /\ pc \in {"idle", "done", "failed"}
    /\ runs < MaxRuns
    /\ runs' = runs + 1
    /\ pc' = "check"
    /\ archive' = "none"
    /\ walkOrder' = <<>>
    /\ df' = NoDf
    /\ steps' = <<>>
    /\ start' = [fs |-> fs, db |-> db]
    /\ UNCHANGED <<fs, appdir, db, platform>>

\* Check without the presence test: the fetch-and-unpack block always runs.
CheckAlways ==
    /\ pc = "check"
    /\ pc' = "download"
    /\ steps' = Append(steps, "check")
    /\ UNCHANGED <<fs, appdir, db, platform, archive, walkOrder, df, start, runs>>

\* if not tsv_file.exists():
Check ==
    /\ pc = "check"
    /\ pc' = IF tsv_file \in DOMAIN fs THEN "parse" ELSE "download"
    /\ steps' = Append(steps, "check")
    /\ UNCHANGED <<fs, appdir, db, platform, archive, walkOrder, df, start, runs>>

\* --- file-system primitives used by the steps

Write(f, p, e) == [q \in DOMAIN f \cup {p} |-> IF q = p THEN e ELSE f[q]]

Remove(f, P) == [q \in DOMAIN f \ P |-> f[q]]

\* pathlib.Path.rename onto a path: the source entry replaces the target.
Rename(f, src, dst) ==
    [q \in (DOMAIN f \ {src}) \cup {dst} |-> IF q = dst THEN f[src] ELSE f[q]]

\* urllib.request.urlretrieve(zip_url, zip_path): the archive the server
\* sends is written to zip_path (replacing a stale one); a failed transfer
\* raises and leaves no file or a truncated one.
Download ==
    /\ pc = "download"
    /\ \E a \in Archives :
         /\ archive' = a
         /\ \/ /\ fs' = Write(fs, zip_path, File([src |-> a, len |-> 1]))
               /\ pc' = "extract"
               /\ steps' = Append(steps, "download")
            \/ /\ fs' \in {fs, Write(fs, zip_path, File([src |-> a, len |-> 0]))}
               /\ pc' = "failed"
               /\ steps' = steps
    /\ UNCHANGED <<appdir, db, platform, walkOrder, df, start, runs>>

\* ZipFile.extract of one member: the parent directory is created when it
\* is missing and the file is opened for writing (an existing file is
\* replaced).
ExtractMember(f, m) ==
    LET g == IF Len(m.path) = 2 THEN Write(f, <<m.path[1]>>, Dir) ELSE f
    IN  Write(g, m.path, File(m.data))

RECURSIVE ExtractPrefix(_, _, _)
\* The first k members of ms extracted, in archive order.
ExtractPrefix(f, ms, k) ==
    IF k = 0 THEN f
    ELSE ExtractMember(ExtractPrefix(f, ms, k - 1), ms[k])

\* What a member whose extraction raises leaves behind: nothing, or the
\* file with only its first n lines written.
PartialWrites(f, m) ==
    {f} \cup {ExtractMember(f, [m EXCEPT !.data.len = n]) : n \in 0 .. (m.data.len - 1)}

\* with zipfile.ZipFile(zip_path, 'r') as zip_ref: zip_ref.extractall(script_dir)
\* Either every member is extracted, or opening the archive or extracting
\* member k + 1 raises (corrupt archive, full disk, interrupt) and the
\* members before it stay extracted.
Extract ==
    /\ pc = "extract"
    /\ LET ms == Members(fs[zip_path].data.src)
       IN  \/ /\ fs' = ExtractPrefix(fs, ms, Len(ms))
              /\ pc' = "search"
              /\ steps' = Append(steps, "extract")
           \/ /\ \E k \in 0 .. (Len(ms) - 1) :
                    fs' \in PartialWrites(ExtractPrefix(fs, ms, k), ms[k + 1])
              /\ pc' = "failed"
              /\ steps' = steps
    /\ UNCHANGED <<appdir, db, platform, archive, walkOrder, df, start, runs>>

\* The subdirectories of script_dir that os.walk descends into.
SubDirs(f) == {p[1] : p \in {q \in DOMAIN f : Len(q) = 1 /\ f[q].kind = "dir"}}

\* The orders in which the directory listing may return them.
Orders(S) ==
    {s \in [1 .. Cardinality(S) -> S] : \A i, j \in DOMAIN s : i # j => s[i] # s[j]}

RECURSIVE WalkDirs(_, _, _)
\* The body of the os.walk loop for the subdirectories in `order`: a file
\* named tsv_name found in a subdirectory is renamed to tsv_file; the break
\* leaves the loop over that directory's files only, so the walk goes on.
\* On POSIX the rename replaces an existing tsv_file; on Windows it raises
\* FileExistsError.
WalkDirs(f, order, plat) ==
    IF order = <<>> THEN [fs |-> f, ok |-> TRUE]
    ELSE LET extracted_tsv == <<Head(order), tsv_name>>
         IN  IF extracted_tsv \in DOMAIN f /\ f[extracted_tsv].kind = "file"
             THEN IF plat = "nt" /\ tsv_file \in DOMAIN f
                  THEN [fs |-> f, ok |-> FALSE]
                  ELSE WalkDirs(Rename(f, extracted_tsv, tsv_file), Tail(order), plat)
             ELSE WalkDirs(f, Tail(order), plat)

\* for root, dirs, files in os.walk(script_dir): ...
\* script_dir itself is listed first (a match there is tsv_file itself and
\* is not moved), then each subdirectory.
Search ==
    /\ pc = "search"
    /\ \E order \in Orders(SubDirs(fs)) :
         LET r == WalkDirs(fs, order, platform)
         IN  /\ walkOrder' = order
             /\ fs' = r.fs
             /\ pc' = IF r.ok THEN "unlink_zip" ELSE "failed"
             /\ steps' = IF r.ok THEN Append(steps, "search") ELSE steps
    /\ UNCHANGED <<appdir, db, platform, archive, df, start, runs>>

\* zip_path.unlink()
UnlinkZip ==
    /\ pc = "unlink_zip"
    /\ IF zip_path \in DOMAIN fs
       THEN /\ fs' = Remove(fs, {zip_path})
            /\ pc' = "cleanup"
            /\ steps' = Append(steps, "unlink_zip")
       ELSE /\ fs' = fs
            /\ pc' = "failed"
            /\ steps' = steps
    /\ UNCHANGED <<appdir, db, platform, archive, walkOrder, df, start, runs>>

\* CleanupMatch without the LICENSE test.
CleanupMatchReadmeOnly(name) == startswith(name, "README")

\* item.name.startswith("LICENSE") or item.name.startswith("README")
CleanupMatch(name) == startswith(name, "LICENSE") \/ startswith(name, "README")

\* The entries of script_dir.iterdir() that the cleanup loop unlinks.
CleanupTargets(f) == {p \in DOMAIN f : Len(p) = 1 /\ CleanupMatch(p[1])}

\* for item in script_dir.iterdir(): if ...: item.unlink()
\* Every top-level file with such a name is unlinked; unlink of a directory
\* raises, after the files listed before it have been unlinked.
Cleanup ==
    /\ pc = "cleanup"
    /\ LET T == CleanupTargets(fs)
           D == {p \in T : fs[p].kind = "dir"}
       IN  IF D = {}
           THEN /\ fs' = Remove(fs, T)
                /\ pc' = "parse"
                /\ steps' = Append(steps, "cleanup")
           ELSE /\ \E gone \in SUBSET (T \ D) : fs' = Remove(fs, gone)
                /\ pc' = "failed"
                /\ steps' = steps
    /\ UNCHANGED <<appdir, db, platform, archive, walkOrder, df, start, runs>>

\* pd.read_csv(tsv_file, sep='\t'): a missing file and a file without a
\* header line raise; otherwise the first line is the header and every
\* further line is one row.
read_csv(f) ==
    IF tsv_file \notin DOMAIN f \/ f[tsv_file].kind # "file" \/ f[tsv_file].data.len = 0
    THEN [ok |-> FALSE, df |-> NoDf]
    ELSE [ok |-> TRUE,
          df |-> [src |-> f[tsv_file].data.src, rows |-> f[tsv_file].data.len - 1]]

\* Parse with the error swallowed: the run goes on with an empty frame.
ParseSwallow ==
    /\ pc = "parse"
    /\ LET r == read_csv(fs)
       IN  /\ df' = r.df
           /\ pc' = "mkdir"
           /\ steps' = IF r.ok THEN Append(steps, "parse") ELSE steps
    /\ UNCHANGED <<fs, appdir, db, platform, archive, walkOrder, start, runs>>

\* df = pd.read_csv(tsv_file, sep='\t')
Parse ==
    /\ pc = "parse"
    /\ LET r == read_csv(fs)
       IN  /\ df' = r.df
           /\ pc' = IF r.ok THEN "mkdir" ELSE "failed"
           /\ steps' = IF r.ok THEN Append(steps, "parse") ELSE steps
    /\ UNCHANGED <<fs, appdir, db, platform, archive, walkOrder, start, runs>>

\* mkdir without exist_ok: an existing directory raises FileExistsError.
mkdir_no_exist_ok(a) ==
    IF a.leaf = "absent" THEN [ok |-> TRUE, dir |-> [parent |-> "dir", leaf |-> "dir"]]
    ELSE [ok |-> FALSE, dir |-> a]

\* pathlib.Path.mkdir(parents=True, exist_ok=True): an existing directory
\* is left alone; a missing one is created, after its missing parent; a
\* path that exists and is no directory raises FileExistsError.
mkdir(a) ==
    IF a.leaf = "dir" THEN [ok |-> TRUE, dir |-> a]
    ELSE IF a.leaf = "absent" THEN [ok |-> TRUE, dir |-> [parent |-> "dir", leaf |-> "dir"]]
    ELSE [ok |-> FALSE, dir |-> a]

\* app_data_dir.mkdir(parents=True, exist_ok=True)
Mkdir ==
    /\ pc = "mkdir"
    /\ LET r == mkdir(appdir)
       IN  /\ appdir' = r.dir
           /\ pc' = IF r.ok THEN "connect" ELSE "failed"
           /\ steps' = IF r.ok THEN Append(steps, "mkdir") ELSE steps
    /\ UNCHANGED <<fs, db, platform, archive, walkOrder, df, start, runs>>

\* con = sqlite3.connect(db_path): the database file is created when it
\* does not exist.
Connect ==
    /\ pc = "connect"
    /\ db' = [db EXCEPT !.exists = TRUE]
    /\ pc' = "to_sql"
    /\ steps' = Append(steps, "connect")
    /\ UNCHANGED <<fs, appdir, platform, archive, walkOrder, df, start, runs>>

\* to_sql with if_exists='append': the frame's rows are added to the table.
to_sql_append(tables, frame) ==
    IF \E t \in tables : t.name = table_name
    THEN {IF t.name = table_name THEN [t EXCEPT !.rows = t.rows + frame.rows] ELSE t
            : t \in tables}
    ELSE tables \cup {[name |-> table_name, src |-> frame.src, rows |-> frame.rows]}

\* DataFrame.to_sql(name, con, if_exists='replace', index=False): a table of
\* that name is dropped, then the table is created and the frame's rows
\* are inserted.
to_sql(tables, frame) ==
    {t \in tables : t.name # table_name}
        \cup {[name |-> table_name, src |-> frame.src, rows |-> frame.rows]}

\* df.to_sql('opennutrition_foods', con, if_exists='replace', index=False)
ToSql ==
    /\ pc = "to_sql"
    /\ db' = [db EXCEPT !.tables = to_sql(db.tables, df)]
    /\ pc' = "done"
    /\ steps' = Append(steps, "to_sql")
    /\ UNCHANGED <<fs, appdir, platform, archive, walkOrder, df, start, runs>>

Next ==
    \/ StartRun
    \/ Check
    \/ Download
    \/ Extract
    \/ Search
    \/ UnlinkZip
    \/ Cleanup
    \/ Parse
    \/ Mkdir
    \/ Connect
    \/ ToSql

Spec == Init /\ [][Next]_vars

\* -------------------------------------------------------------- claims

\* The statements of the script in source order, when the dataset file is
\* absent and when it is present.
AcquireOrder ==
    <<"check", "download", "extract", "search", "unlink_zip", "cleanup",
      "parse", "mkdir", "connect", "to_sql">>

SkipOrder == <<"check", "parse", "mkdir", "connect", "to_sql">>

AcquisitionSteps == {"download", "extract", "search", "unlink_zip", "cleanup"}

\* The run is one that found the dataset file absent.
Acquiring == tsv_file \notin DOMAIN start.fs

\* The run has finished the fetch-and-unpack block.
Acquired == "cleanup" \in Range(steps)

\* The base names of an archive's members, and the top-level entries its
\* extraction writes.
MemberNames(a) == {Members(a)[i].path[Len(Members(a)[i].path)] : i \in DOMAIN Members(a)}

ExtractedTop(a) == {<<Members(a)[i].path[1]>> : i \in DOMAIN Members(a)}

FoodTables == {t \in db.tables : t.name = table_name}

\* C1: a run that starts with the dataset file present performs no
\* acquisition step and leaves every entry of the script's directory,
\* the dataset file included, as it was at the start of the run - in every
\* state of the run, and so for any number of reruns.
C1_RerunNoop ==
    ~Acquiring => /\ fs = start.fs
                  /\ Range(steps) \cap AcquisitionSteps = {}
                  /\ archive = "none"

C1_Witness ==
    /\ ~Acquiring
    /\ pc = "done"
    /\ runs = MaxRuns
    /\ <<"README.md">> \in DOMAIN fs

\* C2: after a successful run that downloaded and extracted an archive,
\* the script's directory holds no downloaded archive and no entry that was
\* not there at the start of the run, other than the dataset file at the
\* target path.
C2_NoArtifacts ==
    (pc = "done" /\ Acquired)
        => /\ zip_path \notin DOMAIN fs
           /\ DOMAIN fs \ DOMAIN start.fs \subseteq {tsv_file}

\* C3: after a successful run the database holds exactly one table, named
\* opennutrition_foods, whose rows are the data rows of the dataset file
\* this run parsed (its lines minus the header), whatever earlier runs
\* wrote.
C3_Replace ==
    pc = "done" => /\ db.exists
                   /\ Cardinality(FoodTables) = 1
                   /\ db.tables = FoodTables
                   /\ \A t \in FoodTables :
                        /\ t.rows = fs[tsv_file].data.len - 1
                        /\ t.src = fs[tsv_file].data.src

C3_Witness ==
    /\ pc = "done"
    /\ start.db.tables # {}
    /\ df.rows >= 1
    /\ runs = MaxRuns

\* C4: in a run that found the dataset file absent and downloaded an archive
\* with members opennutrition_foods.tsv, README.txt and LICENSE, once the
\* fetch-and-unpack block has finished the dataset file is at the target
\* path, the archive is gone and the script's directory has no entry
\* README.txt and no entry LICENSE.
C4_Acquired ==
    (Acquiring /\ Acquired /\ {tsv_name, "README.txt", "LICENSE"} \subseteq MemberNames(archive))
        => /\ tsv_file \in DOMAIN fs
           /\ fs[tsv_file].kind = "file"
           /\ zip_path \notin DOMAIN fs
           /\ <<"README.txt">> \notin DOMAIN fs
           /\ <<"LICENSE">> \notin DOMAIN fs

C4_Witness ==
    /\ Acquiring
    /\ Acquired
    /\ archive = "flat"
    /\ pc = "parse"
    /\ fs[tsv_file].data = Doc("A")

\* C5: a run that found the dataset file absent and downloaded an archive
\* without a member named opennutrition_foods.tsv never completes and
\* never changes the database.
C5_MissingTsvFails ==
    (Acquiring /\ archive # "none" /\ tsv_name \notin MemberNames(archive))
        => /\ pc # "done"
           /\ db = start.db

\* C6: the steps a run has completed are always a prefix of the source
\* order (the acquisition steps exactly when the dataset file was absent);
\* the database differs from its state at the start of the run only when
\* every step before the write has completed, and never in a run that has
\* failed.
C6_Order ==
    /\ IsPrefix(steps, IF Acquiring THEN AcquireOrder ELSE SkipOrder)
    /\ db # start.db => /\ pc \in {"to_sql", "done"}
                        /\ {"check", "parse", "mkdir", "connect"} \subseteq Range(steps)
                        /\ Acquiring => AcquisitionSteps \subseteq Range(steps)
    /\ pc = "failed" => db = start.db

C6_Witness ==
    /\ pc = "done"
    /\ steps = AcquireOrder
    /\ db # start.db
    /\ runs >= 2

\* C7: the mkdir step creates the application-data directory and its
\* missing parent when the directory is absent, leaves an existing
\* directory as it is, and in both cases hands over to the database
\* connection.
C7_Mkdir ==
    [][pc = "mkdir" =>
         /\ appdir.leaf = "absent" =>
              /\ appdir' = [parent |-> "dir", leaf |-> "dir"]
              /\ pc' = "connect"
         /\ appdir.leaf = "dir" =>
              /\ appdir' = appdir
              /\ pc' = "connect"]_vars

C7_Witness ==
    /\ pc = "connect"
    /\ db.exists
    /\ appdir = [parent |-> "dir", leaf |-> "dir"]

\* The files named opennutrition_foods.tsv that the walk meets, in walk
\* order: script_dir first, then the subdirectories in listing order.
RECURSIVE SubMatches(_, _)
SubMatches(f, order) ==
    IF order = <<>> THEN <<>>
    ELSE (IF <<Head(order), tsv_name>> \in DOMAIN f
          THEN <<(<<Head(order), tsv_name>>)>> ELSE <<>>)
         \o SubMatches(f, Tail(order))

Matches(f, order) ==
    (IF tsv_file \in DOMAIN f THEN <<tsv_file>> ELSE <<>>) \o SubMatches(f, order)

\* C8: when the search completes, the file at the target path is the first
\* file named opennutrition_foods.tsv in walk order; no later match has
\* replaced it.
C8_FirstMatchWins ==
    [][(pc = "search" /\ pc' = "unlink_zip" /\ Matches(fs, walkOrder') # <<>>)
          => /\ tsv_file \in DOMAIN fs'
             /\ fs'[tsv_file] = fs[Head(Matches(fs, walkOrder'))]]_vars

\* C9: once the fetch-and-unpack block has finished, every top-level entry
\* that was in the script's directory at the start of the run, is not the
\* archive path and was not written by the extraction is still there,
\* unchanged.
C9_OnlyExtractedDeleted ==
    Acquired =>
        \A p \in DOMAIN start.fs :
            (Len(p) = 1 /\ p # zip_path /\ p \notin ExtractedTop(archive))
                => (p \in DOMAIN fs /\ fs[p] = start.fs[p])

\* C10: between runs, a dataset file at the target path is a completely
\* extracted one, and a completed run has written a complete dataset to
\* the database.
C10_TsvWhole ==
    /\ (pc \in {"idle", "done", "failed"} /\ tsv_file \in DOMAIN fs)
          => Whole(fs[tsv_file].data)
    /\ pc = "done" => \A t \in FoodTables : t.rows = FullLen(t.src) - 1

====
